---- MODULE Spec2Model ----
(***************************************************************************)
(* Model of install.py: the build-and-install orchestrator of              *)
(* markitdown-mcp.  One run of main() is a walk of pc through the code     *)
(* positions of check_go, check_tesseract, build, install_binary,          *)
(* check_path and print_config.  Every subprocess.run is split in the      *)
(* start of the child process and the return of the blocking call.         *)
(***************************************************************************)
EXTENDS Integers, Sequences, FiniteSets, TLC

\* ------------------------------------------------------------------ bounds
MaxRuns == 2        \* how many times the installer is invoked in a row
MaxMajor == 2       \* largest major version `go version` reports

\* --------------------------------------------------------------- constants
REQUIRED_GO_MAJOR == 1
REQUIRED_GO_MINOR == 24
MODE_0755 == 493

PKG_MANAGERS == <<"brew", "apt-get", "dnf", "yum", "pacman", "zypper", "choco">>
PMSet == {PKG_MANAGERS[i] : i \in 1..Len(PKG_MANAGERS)}
Executables == {"go", "tesseract"} \cup PMSet
Sudo == {"sudo apt-get update -q", "sudo apt-get install -y tesseract-ocr",
         "sudo dnf install -y tesseract", "sudo yum install -y tesseract",
         "sudo pacman -Sy --noconfirm tesseract tesseract-data-eng",
         "sudo zypper install -y tesseract-ocr"}

Minors == {0, 9, 23, 24, 25, 99}
NoVersion == [major |-> -1, minor |-> -1]
NoFile == [content |-> <<>>, mode |-> 0]
NoPath == <<>>

SRC_DIR == "src/markitdown"
INSTALL_DIR == "prefix"

BIN_NAME(windows) == IF windows THEN "markitdown-mcp.exe" ELSE "markitdown-mcp"

StepOrder == <<"check_go", "check_tesseract", "build", "install_binary",
               "check_path", "print_config">>

\* What an uncaught Python exception leaves on the error stream.
Traceback == <<"Traceback (most recent call last):", "  File ...", "Exception: ...">>

VARIABLES
  onPath,      \* executables shutil.which resolves
  with_ocr,    \* args.with_ocr
  IS_WINDOWS,  \* platform.system() == "Windows"
  fs,          \* [dir, dest, artifact]: install directory, installed file, build output
  fs0,         \* fs when the current run started
  pc,          \* code position of the run
  procs,       \* external processes currently running
  cmds,        \* external commands started in this run, in order
  status,      \* <<command, exit status>> of the commands run with check=True
  started,     \* steps of main() begun in this run
  completed,   \* steps of main() that returned in this run
  warned,      \* advisories printed with warn()
  stderr,      \* lines this process wrote to sys.stderr
  exitCode,    \* -1 while running, else the process exit status
  fatal,       \* "none", or the condition that ended the run
  pm,          \* result of detect_pkg_manager, "" before it is called
  probed,      \* package managers probed with which() in this run
  version,     \* (major, minor) parsed by check_go
  bin_path,    \* value returned by build()
  full_path,   \* value returned by install_binary()
  tessAtCheck, \* which("tesseract") as check_tesseract saw it
  runs         \* number of runs begun

vars == <<onPath, with_ocr, IS_WINDOWS, fs, fs0, pc, procs, cmds, status, started,
          completed, warned, stderr, exitCode, fatal, pm, probed, version,
          bin_path, full_path, tessAtCheck, runs>>

env == <<with_ocr, IS_WINDOWS, runs, fs0>>

\* ------------------------------------------------------- helpers (pure)
\* error(): one formatted line on sys.stderr.
error(err, msg) == Append(err, "error: " \o msg)

\* Mutant of which: the test of the lookup result is always true.
which_always(name, path) == TRUE

\* which(): shutil.which(name) is not None.
which(name, path) == name \in path

\* Mutant of raises: the exit status is never turned into an exception.
raises_never(check, rc) == FALSE

\* subprocess.run(..., check=check): CalledProcessError iff check and rc # 0.
raises(check, rc) == check /\ rc # 0

\* Mutant of run_wait: the child is started and not waited for.
run_nowait(running, cmd) == running

\* run() blocks until the child has exited.
run_wait(running, cmd) == running \ {cmd}

\* Decimal digits of a number below 100, as the version string has them.
DecStr(n) == IF n < 10 THEN <<n>> ELSE <<n \div 10, n % 10>>

\* a < b as Python compares strings.
StrLess(a, b) ==
  \/ \E k \in 1..Len(a) : /\ k <= Len(b)
                          /\ \A j \in 1..(k - 1) : a[j] = b[j]
                          /\ a[k] < b[k]
  \/ /\ Len(a) < Len(b)
     /\ \A j \in 1..Len(a) : a[j] = b[j]

\* Mutant of too_old: the components are compared as strings, not numbers.
too_old_lex(major, minor) ==
  \/ StrLess(DecStr(major), DecStr(REQUIRED_GO_MAJOR))
  \/ /\ major = REQUIRED_GO_MAJOR
     /\ StrLess(DecStr(minor), DecStr(REQUIRED_GO_MINOR))

\* The comparison of check_go that leads to die().
too_old(major, minor) ==
  major < REQUIRED_GO_MAJOR \/ (major = REQUIRED_GO_MAJOR /\ minor < REQUIRED_GO_MINOR)

\* detect_pkg_manager(): the for loop over the fixed tuple, from index i on.
RECURSIVE probe(_, _)
probe(i, path) ==
  IF i > Len(PKG_MANAGERS) THEN "unknown"
  ELSE IF which(PKG_MANAGERS[i], path) THEN PKG_MANAGERS[i]
  ELSE probe(i + 1, path)

\* Mutant of detect_pkg_manager: the loop keeps the last match, not the first.
RECURSIVE probe_last(_, _, _)
probe_last(i, path, found) ==
  IF i > Len(PKG_MANAGERS) THEN found
  ELSE probe_last(i + 1, path,
                  IF PKG_MANAGERS[i] \in path THEN PKG_MANAGERS[i] ELSE found)

detect_pkg_manager_last(path) == probe_last(1, path, "unknown")

detect_pkg_manager(path) == probe(1, path)

\* The names detect_pkg_manager hands to which() before it returns.
RECURSIVE probes(_, _)
probes(i, path) ==
  IF i > Len(PKG_MANAGERS) THEN {}
  ELSE IF which(PKG_MANAGERS[i], path) THEN {PKG_MANAGERS[i]}
  ELSE {PKG_MANAGERS[i]} \cup probes(i + 1, path)

\* install_tesseract(): the command sequence of each branch of the if chain.
install_commands(p) ==
  CASE p = "brew"    -> <<"brew install tesseract">>
    [] p = "apt-get" -> <<"sudo apt-get update -q", "sudo apt-get install -y tesseract-ocr">>
    [] p = "dnf"     -> <<"sudo dnf install -y tesseract">>
    [] p = "yum"     -> <<"sudo yum install -y tesseract">>
    [] p = "pacman"  -> <<"sudo pacman -Sy --noconfirm tesseract tesseract-data-eng">>
    [] p = "zypper"  -> <<"sudo zypper install -y tesseract-ocr">>
    [] p = "choco"   -> <<"choco install -y tesseract">>
    [] OTHER         -> <<>>

\* Mutant of needs_install: provisioning mode installs even when present.
needs_install_always(ocr, path) == ocr

\* Mutant of needs_install: a missing tool is installed in either mode.
needs_install_missing(ocr, path) == "tesseract" \notin path

\* check_tesseract(): the branch that calls install_tesseract().
needs_install(ocr, path) == ocr /\ ~which("tesseract", path)

\* Mutant of mkdir: exist_ok is not honoured.
mkdir_strict(f, exist_ok, fault) ==
  IF fault \/ f.dir THEN [ok |-> FALSE, fs |-> f]
  ELSE [ok |-> TRUE, fs |-> [f EXCEPT !.dir = TRUE]]

\* Path.mkdir(parents=True, exist_ok=exist_ok).
mkdir(f, exist_ok, fault) ==
  IF fault THEN [ok |-> FALSE, fs |-> f]
  ELSE IF f.dir THEN [ok |-> exist_ok, fs |-> f]
  ELSE [ok |-> TRUE, fs |-> [f EXCEPT !.dir = TRUE]]

\* shutil.copy2(bin_path, dest): contents and metadata of the source replace dest.
copy2(f, fault) ==
  IF fault \/ ~f.dir \/ f.artifact = NoFile THEN [ok |-> FALSE, fs |-> f]
  ELSE [ok |-> TRUE, fs |-> [f EXCEPT !.dest = f.artifact]]

\* dest.chmod(mode).
chmod(f, mode, fault) ==
  IF fault \/ f.dest = NoFile THEN [ok |-> FALSE, fs |-> f]
  ELSE [ok |-> TRUE, fs |-> [f EXCEPT !.dest.mode = mode]]

\* install_binary(): mkdir, copy2 and (not on Windows) chmod, stopping at the
\* first OSError; fault names the call the filesystem refuses, if any.
install_fs(f, windows, fault) ==
  LET a == mkdir(f, TRUE, fault = "mkdir")
      b == IF a.ok THEN copy2(a.fs, fault = "copy2") ELSE a
      c == IF b.ok /\ ~windows THEN chmod(b.fs, MODE_0755, fault = "chmod") ELSE b
  IN c

Faults == {"none", "mkdir", "copy2", "chmod"}

\* ----------------------------------------------------------------- Init
\* The filesystem before the first run: the install directory may exist, and
\* with it a file of other contents (mode 0o644) at the destination; nothing
\* is built yet.
InitFS ==
  {f \in [dir : BOOLEAN,
          dest : {NoFile, [content |-> <<0>>, mode |-> 420]},
          artifact : {NoFile}] : f.dest # NoFile => f.dir}

Init ==
  /\ onPath \in SUBSET Executables
  /\ with_ocr \in BOOLEAN
  /\ IS_WINDOWS \in BOOLEAN
  /\ fs \in InitFS
  /\ fs0 = fs
  /\ pc = "check_go"
  /\ procs = {}
  /\ cmds = <<>>
  /\ status = {}
  /\ started = <<>>
  /\ completed = <<>>
  /\ warned = {}
  /\ stderr = <<>>
  /\ exitCode = -1
  /\ fatal = "none"
  /\ pm = ""
  /\ probed = {}
  /\ version = NoVersion
  /\ bin_path = NoPath
  /\ full_path = NoPath
  /\ tessAtCheck = FALSE
  /\ runs = 1

\* The step of main() in which a fatal condition arises.
StepOf(cause) ==
  CASE cause \in {"go missing", "go version failed", "go version unparsable",
                  "go too old"} -> "check_go"
    [] cause \in {"sudo missing", "package manager failed",
                  "tesseract missing"} -> "check_tesseract"
    [] cause \in {"go mod tidy failed", "go build failed"} -> "build"
    [] cause = "install failed" -> "install_binary"
    [] OTHER -> "none"

\* ------------------------------------------------------ action fragments
\* die(msg): error(msg); sys.exit(1).
die(cause) ==
  /\ stderr' = error(stderr, cause)
  /\ exitCode' = 1
  /\ fatal' = cause
  /\ pc' = "exit"

\* An exception nothing catches: the interpreter prints the traceback and
\* exits with status 1.
uncaught(cause) ==
  /\ stderr' = stderr \o Traceback
  /\ exitCode' = 1
  /\ fatal' = cause
  /\ pc' = "exit"

\* subprocess.run starts the child; control is at `at` until it has exited.
spawn(cmd, at) ==
  /\ procs' = procs \cup {cmd}
  /\ cmds' = Append(cmds, cmd)
  /\ pc' = at

\* ---------------------------------------------------------------- check_go
check_go ==
  /\ pc = "check_go"
  /\ started' = Append(started, "check_go")
  /\ IF ~which("go", onPath)
       THEN die("go missing") /\ UNCHANGED <<procs, cmds>>
       ELSE spawn("go version", "go_version") /\ UNCHANGED <<stderr, exitCode, fatal>>
  /\ UNCHANGED <<env, onPath, fs, status, completed, warned, pm, probed,
                 version, bin_path, full_path, tessAtCheck>>

Versions == [major : 0..MaxMajor, minor : Minors]

\* `go version` has exited: parse stdout, compare, die or return.
go_version ==
  /\ pc = "go_version"
  /\ procs' = run_wait(procs, "go version")
  /\ \E rc \in {0, 1}, v \in Versions \cup {NoVersion} :
       /\ status' = status \cup {<<"go version", rc>>}
       /\ IF raises(TRUE, rc)
         THEN uncaught("go version failed") /\ UNCHANGED <<version, completed>>
         ELSE IF v = NoVersion
         THEN uncaught("go version unparsable") /\ UNCHANGED <<version, completed>>
         ELSE /\ version' = v
              /\ IF too_old(v.major, v.minor)
                   THEN die("go too old") /\ UNCHANGED completed
                   ELSE /\ completed' = Append(completed, "check_go")
                        /\ pc' = "check_tesseract"
                        /\ UNCHANGED <<stderr, exitCode, fatal>>
  /\ UNCHANGED <<env, onPath, fs, cmds, started, warned, pm, probed,
                 bin_path, full_path, tessAtCheck>>

\* ---------------------------------------------------------- check_tesseract
\* check_tesseract() up to its first blocking call; in the provisioning
\* branch this includes install_tesseract() up to its first command.
\* major and minor are locals of check_go and are gone here.
check_tesseract ==
  /\ pc = "check_tesseract"
  /\ started' = Append(started, "check_tesseract")
  /\ tessAtCheck' = which("tesseract", onPath)
  /\ version' = NoVersion
  /\ IF needs_install(with_ocr, onPath)
       THEN LET p == detect_pkg_manager(onPath) IN
            /\ pm' = p
            /\ probed' = probes(1, onPath)
            /\ IF install_commands(p) = <<>>
                 THEN /\ warned' = warned \cup {"no package manager"}
                      /\ pc' = "tesseract_installed"
                      /\ UNCHANGED <<procs, cmds, stderr, exitCode, fatal>>
                 ELSE \/ /\ spawn(install_commands(p)[1], "pm_command")
                         /\ UNCHANGED <<warned, stderr, exitCode, fatal>>
                      \/ /\ install_commands(p)[1] \in Sudo
                         \* sudo itself is not resolvable: FileNotFoundError
                         /\ uncaught("sudo missing")
                         /\ UNCHANGED <<warned, procs, cmds>>
            /\ UNCHANGED completed
       ELSE /\ UNCHANGED <<pm, probed, stderr, exitCode, fatal>>
            /\ IF which("tesseract", onPath)
                 THEN /\ spawn("tesseract --version", "tesseract_version")
                      /\ UNCHANGED <<warned, completed>>
                 ELSE /\ warned' = warned \cup {"tesseract not found"}
                      /\ completed' = Append(completed, "check_tesseract")
                      /\ pc' = "build"
                      /\ UNCHANGED <<procs, cmds>>
  /\ UNCHANGED <<env, onPath, fs, status, bin_path, full_path>>

\* The package-manager command that is running (the last one started).
current == cmds[Len(cmds)]

\* The commands of install_tesseract still to run after the current one.
remaining ==
  LET t == install_commands(pm)
      i == CHOOSE k \in 1..Len(t) : t[k] = current
  IN SubSeq(t, i + 1, Len(t))

\* A package-manager command has exited: die on CalledProcessError, else
\* the next command of the branch, else install_tesseract() returns.  A
\* successful install may or may not make tesseract resolvable.
pm_command ==
  /\ pc = "pm_command"
  /\ \E rc \in {0, 1} :
       /\ status' = status \cup {<<current, rc>>}
       /\ IF raises(TRUE, rc)
         THEN /\ procs' = run_wait(procs, current)
              /\ die("package manager failed")
              /\ UNCHANGED <<cmds, onPath>>
         ELSE IF remaining # <<>>
           THEN /\ cmds' = Append(cmds, remaining[1])
                /\ procs' = run_wait(procs, current) \cup {remaining[1]}
                /\ UNCHANGED <<pc, onPath, stderr, exitCode, fatal>>
           ELSE /\ procs' = run_wait(procs, current)
                /\ onPath' \in {onPath, onPath \cup {"tesseract"}}
                /\ pc' = "tesseract_installed"
                /\ UNCHANGED <<cmds, stderr, exitCode, fatal>>
  /\ UNCHANGED <<env, fs, started, completed, warned, pm, probed, version,
                 bin_path, full_path, tessAtCheck>>

\* Line 100: install_tesseract() has returned and tesseract_version() is
\* called whatever it did; executing a name that does not resolve raises
\* FileNotFoundError, which check=False does not suppress.
tesseract_installed ==
  /\ pc = "tesseract_installed"
  /\ IF which("tesseract", onPath)
       THEN /\ spawn("tesseract --version", "tesseract_version")
            /\ UNCHANGED <<stderr, exitCode, fatal>>
       ELSE /\ uncaught("tesseract missing")
            /\ UNCHANGED <<procs, cmds>>
  /\ UNCHANGED <<env, onPath, fs, status, started, completed, warned, pm, probed,
                 version, bin_path, full_path, tessAtCheck>>

\* `tesseract --version` has exited (check=False: any status is accepted);
\* the first line is reported with info() and check_tesseract() returns.
tesseract_version ==
  /\ pc = "tesseract_version"
  /\ procs' = run_wait(procs, "tesseract --version")
  /\ \E rc \in {0, 1} : ~raises(FALSE, rc)
  /\ completed' = Append(completed, "check_tesseract")
  /\ pc' = "build"
  /\ UNCHANGED <<env, onPath, fs, cmds, status, started, warned, stderr,
                 exitCode, fatal, pm, probed, version, bin_path, full_path,
                 tessAtCheck>>

\* -------------------------------------------------------------------- build
build ==
  /\ pc = "build"
  /\ started' = Append(started, "build")
  /\ spawn("go mod tidy", "go_mod_tidy")
  /\ UNCHANGED <<env, onPath, fs, status, completed, warned, stderr, exitCode,
                 fatal, pm, probed, version, bin_path, full_path, tessAtCheck>>

\* `go mod tidy -e` has exited.
go_mod_tidy ==
  /\ pc = "go_mod_tidy"
  /\ \E rc \in {0, 1} :
       /\ status' = status \cup {<<"go mod tidy", rc>>}
       /\ IF raises(TRUE, rc)
         THEN /\ procs' = run_wait(procs, "go mod tidy")
              /\ die("go mod tidy failed")
              /\ UNCHANGED cmds
         ELSE /\ procs' = run_wait(procs, "go mod tidy") \cup {"go build"}
              /\ cmds' = Append(cmds, "go build")
              /\ pc' = "go_build"
              /\ UNCHANGED <<stderr, exitCode, fatal>>
  /\ UNCHANGED <<env, onPath, fs, started, completed, warned, pm, probed,
                 version, bin_path, full_path, tessAtCheck>>

\* Modes `go build` gives its output under umask 022 and 077 (0o755, 0o700).
ArtifactModes == {493, 448}

\* `go build -o=BIN_NAME` has exited; on success the artifact is at
\* SRC_DIR / BIN_NAME and build() returns that path.  The binary of each
\* run is told apart from the earlier ones by the number of the run.
go_build ==
  /\ pc = "go_build"
  /\ procs' = run_wait(procs, "go build")
  /\ \E rc \in {0, 1}, m \in ArtifactModes :
       /\ status' = status \cup {<<"go build", rc>>}
       /\ IF raises(TRUE, rc)
         THEN die("go build failed") /\ UNCHANGED <<fs, bin_path, completed>>
         ELSE /\ fs' = [fs EXCEPT !.artifact = [content |-> <<runs>>, mode |-> m]]
              /\ bin_path' = <<SRC_DIR, BIN_NAME(IS_WINDOWS)>>
              /\ completed' = Append(completed, "build")
              /\ pc' = "install_binary"
              /\ UNCHANGED <<stderr, exitCode, fatal>>
  /\ UNCHANGED <<env, onPath, cmds, started, warned, pm, probed, version,
                 full_path, tessAtCheck>>

\* ----------------------------------------------------------- install_binary
install_binary ==
  /\ pc = "install_binary"
  /\ started' = Append(started, "install_binary")
  /\ \E fault \in Faults :
       LET r == install_fs(fs, IS_WINDOWS, fault) IN
       /\ fs' = r.fs
       /\ IF r.ok
            THEN /\ full_path' = <<INSTALL_DIR, BIN_NAME(IS_WINDOWS)>>
                 /\ completed' = Append(completed, "install_binary")
                 /\ pc' = "check_path"
                 /\ UNCHANGED <<stderr, exitCode, fatal>>
            ELSE /\ uncaught("install failed")
                 /\ UNCHANGED <<full_path, completed>>
  /\ UNCHANGED <<env, onPath, procs, cmds, status, warned, pm, probed,
                 version, bin_path, tessAtCheck>>

\* --------------------------------------------------------------- check_path
PathDirs == SUBSET {INSTALL_DIR, "/usr/bin"}

check_path ==
  /\ pc = "check_path"
  /\ started' = Append(started, "check_path")
  /\ \E path_dirs \in PathDirs :
       warned' = IF INSTALL_DIR \notin path_dirs
                   THEN warned \cup {"not on PATH"} ELSE warned
  /\ completed' = Append(completed, "check_path")
  /\ pc' = "print_config"
  /\ UNCHANGED <<env, onPath, fs, procs, cmds, status, stderr, exitCode, fatal,
                 pm, probed, version, bin_path, full_path, tessAtCheck>>

\* print_config() and the last line of main(): the interpreter exits with 0.
print_config ==
  /\ pc = "print_config"
  /\ started' = Append(started, "print_config")
  /\ completed' = Append(completed, "print_config")
  /\ exitCode' = 0
  /\ pc' = "exit"
  /\ UNCHANGED <<env, onPath, fs, procs, cmds, status, warned, stderr, fatal,
                 pm, probed, version, bin_path, full_path, tessAtCheck>>

\* ------------------------------------------------------------------- rerun
\* The user invokes the installer again on the same host.
Rerun ==
  /\ pc = "exit"
  /\ runs < MaxRuns
  /\ runs' = runs + 1
  /\ with_ocr' \in BOOLEAN
  /\ fs0' = fs
  /\ pc' = "check_go"
  /\ procs' = {}
  /\ cmds' = <<>>
  /\ status' = {}
  /\ started' = <<>>
  /\ completed' = <<>>
  /\ warned' = {}
  /\ stderr' = <<>>
  /\ exitCode' = -1
  /\ fatal' = "none"
  /\ pm' = ""
  /\ probed' = {}
  /\ version' = NoVersion
  /\ bin_path' = NoPath
  /\ full_path' = NoPath
  /\ tessAtCheck' = FALSE
  /\ UNCHANGED <<onPath, IS_WINDOWS, fs>>

Next ==
  \/ check_go
  \/ go_version
  \/ check_tesseract
  \/ pm_command
  \/ tesseract_installed
  \/ tesseract_version
  \/ build
  \/ go_mod_tidy
  \/ go_build
  \/ install_binary
  \/ check_path
  \/ print_config
  \/ Rerun

Spec == Init /\ [][Next]_vars

TypeOK ==
  /\ onPath \subseteq Executables
  /\ exitCode \in {-1, 0, 1}
  /\ (pc = "exit") = (exitCode # -1)

\* ================================================================== claims
InSeq(x, q) == \E i \in 1..Len(q) : q[i] = x
IsPrefix(a, b) == Len(a) <= Len(b) /\ \A i \in 1..Len(a) : a[i] = b[i]
Done(step) == InSeq(step, completed)
Begun(step) == InSeq(step, started)

PMCommands ==
  UNION {{install_commands(p)[i] : i \in 1..Len(install_commands(p))} : p \in PMSet}

\* C1: when `go` is not resolvable on the search path, whatever the run has
\* done it has terminated with exit code 1 as the first thing: no external
\* command was started (no `go version`, no package manager, no build), no
\* package manager was probed, no step after check_go was begun, and the
\* install directory and the installed file are as they were.
C1_NoGoNoSideEffects ==
  ("go" \notin onPath /\ started # <<>>) =>
    /\ pc = "exit"
    /\ exitCode = 1
    /\ cmds = <<>>
    /\ procs = {}
    /\ probed = {}
    /\ started = <<"check_go">>
    /\ fs = fs0
    /\ bin_path = NoPath
    /\ full_path = NoPath

C1_Witness ==
  "go" \notin onPath /\ pc = "exit" /\ exitCode = 1 /\ fatal = "go missing"

\* C2: for every parsed (major, minor), check_go lets the run continue iff
\* (major, minor) >= (1, 24), numerically on major and then minor; otherwise
\* the run terminates with exit code 1.
C2_GateNumeric ==
  version # NoVersion =>
    IF version.major > 1 \/ (version.major = 1 /\ version.minor >= 24)
      THEN pc = "check_tesseract" /\ exitCode = -1 /\ Done("check_go")
      ELSE pc = "exit" /\ exitCode = 1 /\ ~Done("check_go")

C2_Witness ==
  /\ version = [major |-> 1, minor |-> 24]
  /\ pc = "check_tesseract"

\* C3 (as claimed): with --with-ocr, no tesseract and no package manager
\* the run only warns: it ends in check_tesseract never, and it exits with 0
\* unless build or install fail.
C3_NoManagerIsAdvisory ==
  (with_ocr /\ pm = "unknown" /\ pc = "exit") =>
    \/ exitCode = 0
    \/ StepOf(fatal) \in {"build", "install_binary"}

\* C4 (as claimed): every listed fatal condition halts the run, leaves
\* exactly one formatted error line on the error stream and exits non-zero.
ListedFatal == {"go missing", "go too old", "package manager failed",
                "go mod tidy failed", "go build failed", "install failed"}

C4_OneErrorLine ==
  fatal \in ListedFatal =>
    /\ pc = "exit"
    /\ exitCode > 0
    /\ stderr = <<"error: " \o fatal>>

\* C5: detect_pkg_manager returns the available manager that is first in the
\* order brew, apt-get, dnf, yum, pacman, zypper, choco, and "unknown"
\* exactly when none of the seven is available.
ClaimedOrder == <<"brew", "apt-get", "dnf", "yum", "pacman", "zypper", "choco">>

FirstAvailable(avail) ==
  IF \A i \in 1..7 : ClaimedOrder[i] \notin avail THEN "unknown"
  ELSE ClaimedOrder[CHOOSE i \in 1..7 :
                      /\ ClaimedOrder[i] \in avail
                      /\ \A j \in 1..(i - 1) : ClaimedOrder[j] \notin avail]

C5_FirstInOrder ==
  pm # "" => /\ pm = FirstAvailable(onPath)
             /\ (pm = "unknown") = (onPath \cap PMSet = {})

C5_Witness ==
  /\ pm = "apt-get"
  /\ {"apt-get", "yum", "choco"} \subseteq onPath

\* C6: in provisioning mode with tesseract already resolvable, no package
\* manager is probed, no package-manager command is started, nothing is
\* warned or fatal in the step, and the step returns so that build follows;
\* in the first run and in every later one.
C6_PresentSkipsInstall ==
  (with_ocr /\ tessAtCheck) =>
    /\ probed = {}
    /\ pm = ""
    /\ \A i \in 1..Len(cmds) : cmds[i] \notin PMCommands
    /\ warned \cap {"no package manager", "tesseract not found"} = {}
    /\ StepOf(fatal) # "check_tesseract"
    /\ pc # "tesseract_version" => Done("check_tesseract")
    /\ (pc # "tesseract_version" /\ pc # "build") => Begun("build")

C6_Witness ==
  with_ocr /\ tessAtCheck /\ runs = 2 /\ Begun("build") /\ cmds[2] = "tesseract --version"

\* C7: install_binary succeeds whether or not the directory and the
\* destination exist; once it has returned, the destination has the
\* artifact's contents, mode 0o755 off Windows, the returned path is
\* <install directory>/<binary name>, and installing again changes nothing.
C7_InstallOverwrites ==
  /\ pc = "install_binary" => install_fs(fs, IS_WINDOWS, "none").ok
  /\ Done("install_binary") =>
       /\ fs.dir
       /\ fs.dest.content = fs.artifact.content
       /\ ~IS_WINDOWS => fs.dest.mode = 493
       /\ full_path = <<"prefix", IF IS_WINDOWS THEN "markitdown-mcp.exe"
                                                ELSE "markitdown-mcp">>
       /\ install_fs(fs, IS_WINDOWS, "none") = [ok |-> TRUE, fs |-> fs]

C7_Witness ==
  /\ Done("install_binary")
  /\ runs = 2
  /\ fs0.dest # NoFile
  /\ fs0.dest.content # fs.dest.content

\* C8: advisories never change the outcome: in verify mode a missing
\* tesseract only warns and the step returns; a directory missing from PATH
\* only warns and the step returns; warnings leave the error stream empty;
\* a run in verify mode ends with 1 only for the gate, build or install, and
\* with 0 after all steps otherwise.
C8_AdvisoriesKeepExitCode ==
  /\ (~with_ocr /\ "tesseract not found" \in warned) => Done("check_tesseract")
  /\ "not on PATH" \in warned => Done("check_path")
  /\ fatal = "none" => stderr = <<>>
  /\ (Done("check_path") /\ pc = "exit") => exitCode = 0
  /\ (~with_ocr /\ pc = "exit") =>
       IF fatal = "none" THEN exitCode = 0 /\ completed = StepOrder
       ELSE StepOf(fatal) \in {"check_go", "build", "install_binary"}

C8_Witness ==
  /\ ~with_ocr
  /\ pc = "exit"
  /\ exitCode = 0
  /\ warned = {"tesseract not found", "not on PATH"}

\* C9: the steps begin and return in the fixed order, each at most once and
\* each only after the one before has returned; after a fatal condition the
\* run is over; at most one external process runs at any time; exit status 0
\* only after all six steps.
C9_LinearOrder ==
  /\ IsPrefix(started, StepOrder)
  /\ IsPrefix(completed, StepOrder)
  /\ Len(completed) <= Len(started)
  /\ Len(started) <= Len(completed) + 1
  /\ Cardinality(procs) <= 1
  /\ fatal # "none" => pc = "exit" /\ exitCode = 1
  /\ pc = "exit" => procs = {}
  /\ exitCode = 0 => completed = StepOrder /\ fatal = "none"

C9_Witness ==
  exitCode = 0 /\ completed = StepOrder /\ Len(cmds) = 6

\* C10: a non-zero exit of `go mod tidy` or `go build` ends the run with
\* exit code 1, without an artifact path and with the install directory and
\* the installed file untouched; after a failed `go mod tidy`, `go build`
\* is never started.
C10_BuildFailsFast ==
  \A c \in {"go mod tidy", "go build"} :
    <<c, 1>> \in status =>
      /\ pc = "exit"
      /\ exitCode = 1
      /\ bin_path = NoPath
      /\ fs.dir = fs0.dir
      /\ fs.dest = fs0.dest
      /\ ~Begun("install_binary")
      /\ c = "go mod tidy" => ~InSeq("go build", cmds)

C10_Witness ==
  /\ fatal = "go mod tidy failed"
  /\ runs = 2
  /\ fs0.dest # NoFile
====
